---- MODULE Spec2Model ----
\* Model of the stunt-ecommerce-backend Payload configuration:
\*   - the access predicates                      (src/unnamed/part_000)
\*   - the Users collection and its beforeChange  (src/unnamed/part_001)
\*   - the products beforeValidate slug hook, the products collection and
\*     migration 20251202_023627                  (src/src/migrations/20251202_023627.ts)
\*   - the exported migration list                (src/src/migrations/index.ts)
EXTENDS Integers, Sequences, FiniteSets, TLC

VARIABLES
    accUser, accFn, accResult,          \* access predicates: req.user, predicate called, its result
    hookData, hookOp, hookOut,          \* slug hook: data, operation, returned data
    users, reqs, nextId,                \* users table, in-flight user requests, autoincrement id
    products, productReq, productResult, nextProductId,  \* products table and the request in flight
    schema, prior, mpc,                 \* database schema, schema before up, position in up/down
    applied, runner, ran,               \* migration runner: rows of payload_migrations, the command running, scripts run so far
    cart, storage, isLoading, nextUuid, lastCall  \* cart store: the cart atom, localStorage 'cart', isLoading, next fresh item id, last call and the branch it took

vars == <<accUser, accFn, accResult, hookData, hookOp, hookOut, users, reqs, nextId,
          products, productReq, productResult, nextProductId, schema, prior, mpc,
          applied, runner, ran, cart, storage, isLoading, nextUuid, lastCall>>

accessVars   == <<accUser, accFn, accResult>>
slugVars     == <<hookData, hookOp, hookOut>>
userVars     == <<users, reqs, nextId>>
productVars  == <<products, productReq, productResult, nextProductId>>
schemaVars   == <<schema, prior, mpc>>
runnerVars   == <<applied, runner, ran>>
cartVars     == <<cart, storage, isLoading, nextUuid, lastCall>>

\* ---------------------------------------------------------------- bounds
MaxUserId == 4       \* ids of the users that call the access predicates
MaxLen    == 4       \* longest title given to the slug hook
NReq      == 2       \* user requests that can be in flight together
MaxCreates == 2      \* user creations in one run
MaxProducts == 3     \* product creations in one run
MaxRan    == 5       \* migration scripts the runner executes in one run of the model
MaxCartProducts == 2 \* distinct products offered to the cart
MaxQty    == 2       \* largest quantity a cart line reaches
MaxUuid   == 2       \* cart lines created in one run

\* ---------------------------------------------------------------- values
\* JavaScript undefined (an absent property); distinct from every string and array.
Undefined == <<"undefined">>
\* JavaScript null / undefined request user (an anonymous caller).
Null == [null |-> TRUE]
\* not yet called / nothing returned yet
NotRun == [kind |-> "none"]

\* Array.prototype.includes on an array modelled as a sequence.
Includes(arr, x) == \E i \in 1..Len(arr) : arr[i] = x

\* ================================================================ access
\* The role arrays the select field (hasMany) can hold.
RoleArrays == { <<>>, <<"admin">>, <<"customer">>, <<"admin", "customer">>, <<"customer", "admin">> }

\* req.user: null, or a user document with an id and an optional roles array.
RequestUsers == {Null} \cup [id : 1..MaxUserId, roles : RoleArrays \cup {Undefined}]

\* user?.roles?.includes(role): undefined (falsy) for a null user or absent roles.
HasRole(user, role) ==
    /\ user # Null
    /\ user.roles # Undefined
    /\ Includes(user.roles, role)

\* user?.id as a condition: truthy unless the user is null or the id is 0.
HasId(user) == user # Null /\ user.id # 0

BoolResult(b) == [kind |-> "bool", value |-> b]
WhereEquals(f, v) == [kind |-> "where", field |-> f, equals |-> v]

adminOnlyCustomer(user) == BoolResult(HasRole(user, "customer"))
adminOnly(user) == BoolResult(HasRole(user, "admin"))

adminOnlyFieldAccess(user) == BoolResult(HasRole(user, "admin"))

adminOrCustomerOwnerNoAdminBranch(user) ==
    IF HasId(user) THEN WhereEquals("customer", user.id) ELSE BoolResult(FALSE)
adminOrCustomerOwner(user) ==
    IF HasRole(user, "admin") THEN BoolResult(TRUE)
    ELSE IF HasId(user) THEN WhereEquals("customer", user.id)
    ELSE BoolResult(FALSE)

adminOrPublishedStatusOpenToUsers(user) ==
    IF user # Null THEN BoolResult(TRUE) ELSE WhereEquals("_status", "published")
adminOrPublishedStatus(user) ==
    IF HasRole(user, "admin") THEN BoolResult(TRUE)
    ELSE WhereEquals("_status", "published")

customerOnlyFieldAccess(user) == BoolResult(HasRole(user, "customer"))

AccessIdle == accUser = Null /\ accFn = "none" /\ accResult = NotRun

InitAccess == accUser \in RequestUsers /\ accFn = "none" /\ accResult = NotRun

\* A new request arrives with its own req.user.
NewRequest ==
    /\ accFn # "none"
    /\ accUser' \in RequestUsers
    /\ accFn' = "none"
    /\ accResult' = NotRun

CallAdminOnly ==
    /\ accFn = "none"
    /\ accFn' = "adminOnly"
    /\ accResult' = adminOnly(accUser)
    /\ UNCHANGED accUser

CallAdminOnlyFieldAccess ==
    /\ accFn = "none"
    /\ accFn' = "adminOnlyFieldAccess"
    /\ accResult' = adminOnlyFieldAccess(accUser)
    /\ UNCHANGED accUser

CallAdminOrCustomerOwner ==
    /\ accFn = "none"
    /\ accFn' = "adminOrCustomerOwner"
    /\ accResult' = adminOrCustomerOwner(accUser)
    /\ UNCHANGED accUser

CallAdminOrPublishedStatus ==
    /\ accFn = "none"
    /\ accFn' = "adminOrPublishedStatus"
    /\ accResult' = adminOrPublishedStatus(accUser)
    /\ UNCHANGED accUser

CallCustomerOnlyFieldAccess ==
    /\ accFn = "none"
    /\ accFn' = "customerOnlyFieldAccess"
    /\ accResult' = customerOnlyFieldAccess(accUser)
    /\ UNCHANGED accUser

\* ================================================================ slug hook
\* The characters titles are built from: a lower and an upper case letter, a digit,
\* a space, a hyphen and a non-ASCII upper case letter.
Alphabet == {"a", "Z", "7", " ", "-", "É"}

UpperCase == <<"A","B","C","D","E","F","G","H","I","J","K","L","M",
               "N","O","P","Q","R","S","T","U","V","W","X","Y","Z","É">>
LowerCase == <<"a","b","c","d","e","f","g","h","i","j","k","l","m",
               "n","o","p","q","r","s","t","u","v","w","x","y","z","é">>

\* The characters of the class [a-z0-9].
SlugChars == {"a","b","c","d","e","f","g","h","i","j","k","l","m",
              "n","o","p","q","r","s","t","u","v","w","x","y","z",
              "0","1","2","3","4","5","6","7","8","9"}

\* Strings are sequences of one-character strings.
StringsUpTo(n) == UNION { [1..k -> Alphabet] : k \in 0..n }

LowerChar(c) ==
    IF \E i \in 1..Len(UpperCase) : UpperCase[i] = c
    THEN LowerCase[CHOOSE i \in 1..Len(UpperCase) : UpperCase[i] = c]
    ELSE c

\* String.prototype.toLowerCase
toLowerCase(s) == [i \in 1..Len(s) |-> LowerChar(s[i])]

\* .replace(/[^a-z0-9]/g, '-'): every character outside the class becomes a hyphen.
ReplaceEachNonSlugChar(s) == [i \in 1..Len(s) |-> IF s[i] \in SlugChars THEN s[i] ELSE "-"]

RECURSIVE ReplaceRunsFrom(_, _)
ReplaceRunsFrom(s, i) ==
    IF i > Len(s) THEN <<>>
    ELSE IF s[i] \in SlugChars THEN <<s[i]>> \o ReplaceRunsFrom(s, i + 1)
    ELSE IF i > 1 /\ s[i - 1] \notin SlugChars THEN ReplaceRunsFrom(s, i + 1)
    ELSE <<"-">> \o ReplaceRunsFrom(s, i + 1)

\* .replace(/[^a-z0-9]+/g, '-'): every maximal run outside the class becomes one hyphen.
ReplaceNonSlugRuns(s) == ReplaceRunsFrom(s, 1)

\* .replace(/^-|-$/g, ''): one hyphen at the start and one at the end are removed.
StripEdgeHyphens(s) ==
    LET t == IF Len(s) > 0 /\ Head(s) = "-" THEN Tail(s) ELSE s
    IN  IF Len(t) > 0 /\ t[Len(t)] = "-" THEN SubSeq(t, 1, Len(t) - 1) ELSE t

Slugify(title) == StripEdgeHyphens(ReplaceNonSlugRuns(toLowerCase(title)))

\* A string value used as a condition: undefined and '' are falsy.
Truthy(v) == v # Undefined /\ v # <<>>

\* beforeValidate without the slug guard: the slug is derived whenever a title is present.
beforeValidateOverwrites(data, operation) ==
    IF operation \in {"create", "update"} /\ Truthy(data.title)
    THEN [data EXCEPT !.slug = Slugify(data.title)]
    ELSE data

\* productsOverride.hooks.beforeValidate
beforeValidate(data, operation) ==
    IF operation \in {"create", "update"} /\ Truthy(data.title) /\ ~Truthy(data.slug)
    THEN [data EXCEPT !.slug = Slugify(data.title)]
    ELSE data

\* Slugs a request can supply with its data.
SuppliedSlugs == { Undefined, <<>>, <<"a">>, <<"A", " ", "b">> }
SuppliedSkus  == { Undefined, <<"7">> }

HookInputs == [title : StringsUpTo(MaxLen) \cup {Undefined}, slug : SuppliedSlugs, sku : SuppliedSkus]
\* 'create' and 'update' are what the framework passes; the hook also guards against any other.
Operations == {"create", "update", "delete"}

SlugIdle == hookData = NotRun /\ hookOp = "none" /\ hookOut = NotRun

InitSlug == hookData \in HookInputs /\ hookOp \in Operations /\ hookOut = NotRun

RunBeforeValidate ==
    /\ hookOut = NotRun
    /\ hookOut' = beforeValidate(hookData, hookOp)
    /\ UNCHANGED <<hookData, hookOp>>

\* ================================================================ users
\* The roles a request body can carry (Undefined: the body has no roles).
SuppliedRoles == { Undefined, <<"admin">>, <<"customer">> }

\* fields.roles.defaultValue, applied by the framework to a create without roles.
DefaultRoles == <<"customer">>

\* A hook that promotes on a count of one instead of zero.
beforeChangePromotesOnOne(data, operation, totalDocs) ==
    IF operation = "create" /\ totalDocs = 1
    THEN [data EXCEPT !.roles = <<"admin">>]
    ELSE data

\* A hook that tests for the update operation instead of create.
beforeChangeOnUpdate(data, operation, totalDocs) ==
    IF operation = "update" /\ totalDocs = 0
    THEN [data EXCEPT !.roles = <<"admin">>]
    ELSE data

\* A hook that also resets the roles of every later create to the default.
beforeChangeResetsRoles(data, operation, totalDocs) ==
    IF operation = "create"
    THEN [data EXCEPT !.roles = IF totalDocs = 0 THEN <<"admin">> ELSE DefaultRoles]
    ELSE data

\* Users.hooks.beforeChange, given the totalDocs its count returned.
beforeChange(data, operation, totalDocs) ==
    IF operation = "create" /\ totalDocs = 0
    THEN [data EXCEPT !.roles = <<"admin">>]
    ELSE data

IdleReq == [pc |-> "idle", operation |-> "none", supplied |-> Undefined,
            data |-> [roles |-> Undefined], target |-> 0, observed |-> 0]

Slots == 1..NReq
UserIds == { users[i].id : i \in 1..Len(users) }
InFlight(r) == reqs[r].pc \in {"hook", "persist"}
NoneInFlight == \A r \in Slots : ~InFlight(r)
CreatesInFlight == Cardinality({ r \in Slots : InFlight(r) /\ reqs[r].operation = "create" })

RECURSIVE WithoutUser(_, _)
WithoutUser(rows, id) ==
    IF rows = <<>> THEN <<>>
    ELSE IF Head(rows).id = id THEN WithoutUser(Tail(rows), id)
    ELSE <<Head(rows)>> \o WithoutUser(Tail(rows), id)

UsersIdle == users = <<>> /\ reqs = [r \in Slots |-> IdleReq] /\ nextId = 1

InitUsers == UsersIdle

\* A create request arrives; the framework fills in the field default.
BeginCreate(r, roles) ==
    /\ ~InFlight(r)
    /\ nextId + CreatesInFlight <= MaxCreates
    /\ reqs' = [reqs EXCEPT ![r] =
          [pc |-> "hook", operation |-> "create", supplied |-> roles,
           data |-> [roles |-> IF roles = Undefined THEN DefaultRoles ELSE roles],
           target |-> 0, observed |-> 0]]
    /\ UNCHANGED <<users, nextId>>

\* The hook's count of the users collection returns, and the hook finishes.
HookCount(r) ==
    /\ reqs[r].pc = "hook"
    /\ reqs[r].operation = "create"
    /\ reqs' = [reqs EXCEPT ![r].pc = "persist",
                            ![r].observed = Len(users),
                            ![r].data = beforeChange(reqs[r].data, "create", Len(users))]
    /\ UNCHANGED <<users, nextId>>

\* An update request arrives; the hook returns its data at once (it counts nothing).
BeginUpdate(r, id, roles) ==
    /\ ~InFlight(r)
    /\ id \in UserIds
    /\ reqs' = [reqs EXCEPT ![r] =
          [pc |-> "persist", operation |-> "update", supplied |-> roles,
           data |-> beforeChange([roles |-> roles], "update", Len(users)),
           target |-> id, observed |-> 0]]
    /\ UNCHANGED <<users, nextId>>

\* The framework writes the data the hook returned.
Persist(r) ==
    /\ reqs[r].pc = "persist"
    /\ IF reqs[r].operation = "create"
       THEN /\ users' = Append(users, [id |-> nextId, roles |-> reqs[r].data.roles])
            /\ nextId' = nextId + 1
       ELSE /\ users' = [i \in 1..Len(users) |->
                           IF users[i].id = reqs[r].target /\ reqs[r].data.roles # Undefined
                           THEN [users[i] EXCEPT !.roles = reqs[r].data.roles]
                           ELSE users[i]]
            /\ UNCHANGED nextId
    /\ reqs' = [reqs EXCEPT ![r].pc = "done", ![r].data = IdleReq.data, ![r].target = 0]

DeleteUser(id) ==
    /\ id \in UserIds
    /\ users' = WithoutUser(users, id)
    /\ UNCHANGED <<reqs, nextId>>


\* ================================================================ products
\* Titles and slugs product requests carry: two titles that derive the same slug,
\* a slug that is not normalised, and absent values.
ProductTitles == { Undefined, <<"a", " ", "Z">>, <<"a", "-", "z">>, <<"7">> }
ProductSlugs  == { Undefined, <<"a", "-", "z">>, <<"Z">> }
ProductInputs == [title : ProductTitles, slug : ProductSlugs, sku : {Undefined}]

NoRequest == [operation |-> "none"]
ProductIds == { products[i].id : i \in 1..Len(products) }
ProductRow(id) == products[CHOOSE i \in 1..Len(products) : products[i].id = id]

\* The document an operation writes: the data of a create, or the stored row of an
\* update overlaid with the fields its data carries.
Merged(req) ==
    IF req.operation = "create"
    THEN [id |-> nextProductId, title |-> req.data.title, slug |-> req.data.slug]
    ELSE LET old == ProductRow(req.target)
         IN  [id |-> old.id,
              title |-> IF req.data.title = Undefined THEN old.title ELSE req.data.title,
              slug  |-> IF req.data.slug = Undefined THEN old.slug ELSE req.data.slug]

\* fields title and slug: required: true
RequiredMissing(doc) == ~Truthy(doc.title) \/ ~Truthy(doc.slug)

\* An index on slug that is not unique.
NonUniqueIndex(doc, rows) == FALSE

\* products_slug_idx (fields.slug.unique): another row holds the same non-NULL slug.
UniqueViolation(doc, rows) ==
    /\ doc.slug # Undefined
    /\ \E i \in 1..Len(rows) : rows[i].id # doc.id /\ rows[i].slug = doc.slug

RECURSIVE WithoutProduct(_, _)
WithoutProduct(rows, id) ==
    IF rows = <<>> THEN <<>>
    ELSE IF Head(rows).id = id THEN WithoutProduct(Tail(rows), id)
    ELSE <<Head(rows)>> \o WithoutProduct(Tail(rows), id)

ProductsIdle ==
    /\ products = <<>>
    /\ productReq = NoRequest
    /\ productResult = "none"
    /\ nextProductId = 1

InitProducts == ProductsIdle

\* A create request arrives and the beforeValidate hooks run on its data.
SubmitCreate(data) ==
    /\ productReq = NoRequest
    /\ nextProductId <= MaxProducts
    /\ productReq' = [operation |-> "create", target |-> 0, data |-> beforeValidate(data, "create")]
    /\ productResult' = "pending"
    /\ UNCHANGED <<products, nextProductId>>

\* An update request arrives and the beforeValidate hooks run on its data.
SubmitUpdate(id, data) ==
    /\ productReq = NoRequest
    /\ id \in ProductIds
    /\ productReq' = [operation |-> "update", target |-> id, data |-> beforeValidate(data, "update")]
    /\ productResult' = "pending"
    /\ UNCHANGED <<products, nextProductId>>

\* Validation of the required fields, then the write, which the unique index can refuse.
WriteProduct ==
    /\ productReq # NoRequest
    /\ LET doc == Merged(productReq)
       IN  IF RequiredMissing(doc)
           THEN productResult' = "ValidationError" /\ UNCHANGED <<products, nextProductId>>
           ELSE IF UniqueViolation(doc, products)
           THEN productResult' = "PersistenceError" /\ UNCHANGED <<products, nextProductId>>
           ELSE /\ productResult' = "ok"
                /\ IF productReq.operation = "create"
                   THEN products' = Append(products, doc) /\ nextProductId' = nextProductId + 1
                   ELSE /\ products' = [i \in 1..Len(products) |->
                                           IF products[i].id = doc.id THEN doc ELSE products[i]]
                        /\ UNCHANGED nextProductId
    /\ productReq' = NoRequest

DeleteProduct(id) ==
    /\ productReq = NoRequest
    /\ id \in ProductIds
    /\ products' = WithoutProduct(products, id)
    /\ productResult' = "none"
    /\ UNCHANGED <<productReq, nextProductId>>


\* ================================================================ migration 20251202_023627
\* A schema is a set of tables (name, ordered columns) and a set of indexes.
CreateTable(t, cols) == [op |-> "CREATE TABLE", table |-> t, columns |-> cols]
CreateIndex(n, t, c, u) == [op |-> "CREATE INDEX", name |-> n, table |-> t, column |-> c, unique |-> u]
AddColumn(t, c) == [op |-> "ADD COLUMN", table |-> t, column |-> c]
DropTable(t) == [op |-> "DROP TABLE", table |-> t]
DropIndex(n) == [op |-> "DROP INDEX", name |-> n]
DropColumn(t, c) == [op |-> "DROP COLUMN", table |-> t, column |-> c]

up == <<
    CreateTable("products_gallery", <<"_order", "_parent_id", "id", "image_id">>),
    CreateIndex("products_gallery_order_idx", "products_gallery", "_order", FALSE),
    CreateIndex("products_gallery_parent_id_idx", "products_gallery", "_parent_id", FALSE),
    CreateIndex("products_gallery_image_idx", "products_gallery", "image_id", FALSE),
    CreateTable("_products_v_version_gallery", <<"_order", "_parent_id", "id", "image_id", "_uuid">>),
    CreateIndex("_products_v_version_gallery_order_idx", "_products_v_version_gallery", "_order", FALSE),
    CreateIndex("_products_v_version_gallery_parent_id_idx", "_products_v_version_gallery", "_parent_id", FALSE),
    CreateIndex("_products_v_version_gallery_image_idx", "_products_v_version_gallery", "image_id", FALSE),
    AddColumn("products", "title"),
    AddColumn("products", "slug"),
    AddColumn("products", "sku"),
    AddColumn("products", "copy"),
    CreateIndex("products_slug_idx", "products", "slug", TRUE),
    AddColumn("_products_v", "version_title"),
    AddColumn("_products_v", "version_slug"),
    AddColumn("_products_v", "version_sku"),
    AddColumn("_products_v", "version_copy"),
    CreateIndex("_products_v_version_version_slug_idx", "_products_v", "version_slug", FALSE) >>

\* down without its DROP COLUMN copy.
downKeepsCopy == <<
    DropTable("products_gallery"),
    DropTable("_products_v_version_gallery"),
    DropIndex("products_slug_idx"),
    DropColumn("products", "title"),
    DropColumn("products", "slug"),
    DropColumn("products", "sku"),
    DropIndex("_products_v_version_version_slug_idx"),
    DropColumn("_products_v", "version_title"),
    DropColumn("_products_v", "version_slug"),
    DropColumn("_products_v", "version_sku"),
    DropColumn("_products_v", "version_copy") >>

down == <<
    DropTable("products_gallery"),
    DropTable("_products_v_version_gallery"),
    DropIndex("products_slug_idx"),
    DropColumn("products", "title"),
    DropColumn("products", "slug"),
    DropColumn("products", "sku"),
    DropColumn("products", "copy"),
    DropIndex("_products_v_version_version_slug_idx"),
    DropColumn("_products_v", "version_title"),
    DropColumn("_products_v", "version_slug"),
    DropColumn("_products_v", "version_sku"),
    DropColumn("_products_v", "version_copy") >>

TableNames(sch) == { t.name : t \in sch.tables }
IndexNames(sch) == { x.name : x \in sch.indexes }
TableOf(sch, n) == CHOOSE t \in sch.tables : t.name = n
HasColumn(sch, tn, c) == tn \in TableNames(sch) /\ Includes(TableOf(sch, tn).columns, c)

RECURSIVE WithoutColumn(_, _)
WithoutColumn(cols, c) ==
    IF cols = <<>> THEN <<>>
    ELSE IF Head(cols) = c THEN WithoutColumn(Tail(cols), c)
    ELSE <<Head(cols)>> \o WithoutColumn(Tail(cols), c)

\* Whether the database accepts the statement (it raises an error otherwise).
CanRun(st, sch) ==
    CASE st.op = "CREATE TABLE" -> st.table \notin TableNames(sch) \cup IndexNames(sch)
      [] st.op = "CREATE INDEX" -> /\ st.name \notin TableNames(sch) \cup IndexNames(sch)
                                   /\ HasColumn(sch, st.table, st.column)
      [] st.op = "ADD COLUMN"   -> /\ st.table \in TableNames(sch)
                                   /\ ~HasColumn(sch, st.table, st.column)
      [] st.op = "DROP TABLE"   -> st.table \in TableNames(sch)
      [] st.op = "DROP INDEX"   -> st.name \in IndexNames(sch)
      [] st.op = "DROP COLUMN"  -> /\ HasColumn(sch, st.table, st.column)
                                   /\ Len(TableOf(sch, st.table).columns) > 1
                                   /\ ~\E x \in sch.indexes : x.table = st.table /\ x.column = st.column

\* The schema after the statement.
Run(st, sch) ==
    CASE st.op = "CREATE TABLE" ->
            [sch EXCEPT !.tables = @ \cup {[name |-> st.table, columns |-> st.columns]}]
      [] st.op = "CREATE INDEX" ->
            [sch EXCEPT !.indexes = @ \cup {[name |-> st.name, table |-> st.table,
                                             column |-> st.column, unique |-> st.unique]}]
      [] st.op = "ADD COLUMN" ->
            [sch EXCEPT !.tables = { IF t.name = st.table
                                     THEN [t EXCEPT !.columns = Append(@, st.column)]
                                     ELSE t : t \in @ }]
      [] st.op = "DROP TABLE" ->
            [tables |-> { t \in sch.tables : t.name # st.table },
             indexes |-> { x \in sch.indexes : x.table # st.table }]
      [] st.op = "DROP INDEX" ->
            [sch EXCEPT !.indexes = { x \in @ : x.name # st.name }]
      [] st.op = "DROP COLUMN" ->
            [sch EXCEPT !.tables = { IF t.name = st.table
                                     THEN [t EXCEPT !.columns = WithoutColumn(@, st.column)]
                                     ELSE t : t \in @ }]

\* Schemas the earlier migrations can have left: products, _products_v and media,
\* with or without further columns, tables and indexes.
PriorSchemas ==
    { [tables |-> { [name |-> "products", columns |-> pc],
                    [name |-> "_products_v", columns |-> vc],
                    [name |-> "media", columns |-> <<"id", "url">>] } \cup extra,
       indexes |-> { [name |-> "products_created_at_idx", table |-> "products",
                      column |-> "created_at", unique |-> FALSE] } \cup ix ] :
        pc \in { <<"id", "created_at">>, <<"id", "created_at", "inventory">>, <<"id", "created_at", "sku">> },
        vc \in { <<"id", "parent_id">>, <<"id", "parent_id", "version__status">> },
        extra \in { {}, {[name |-> "users", columns |-> <<"id", "email">>]} },
        ix \in { {}, {[name |-> "_products_v_parent_idx", table |-> "_products_v",
                       column |-> "parent_id", unique |-> FALSE]} } }

EmptySchema == [tables |-> {}, indexes |-> {}]
SchemaIdle == schema = EmptySchema /\ prior = EmptySchema /\ mpc = [phase |-> "none", i |-> 0]

InitSchema == schema \in PriorSchemas /\ prior = schema /\ mpc = [phase |-> "ready", i |-> 0]

StartUp ==
    /\ mpc.phase = "ready"
    /\ mpc' = [phase |-> "up", i |-> 1]
    /\ UNCHANGED <<schema, prior>>

\* One db.run of up; a statement the database refuses aborts the migration.
UpStatement ==
    /\ mpc.phase = "up"
    /\ mpc.i <= Len(up)
    /\ IF CanRun(up[mpc.i], schema)
       THEN schema' = Run(up[mpc.i], schema) /\ mpc' = [mpc EXCEPT !.i = @ + 1]
       ELSE schema' = schema /\ mpc' = [mpc EXCEPT !.phase = "failed"]
    /\ UNCHANGED prior

\* up has returned; down is run immediately after.
StartDown ==
    /\ mpc.phase = "up"
    /\ mpc.i > Len(up)
    /\ mpc' = [phase |-> "down", i |-> 1]
    /\ UNCHANGED <<schema, prior>>

\* One db.run of down.
DownStatement ==
    /\ mpc.phase = "down"
    /\ mpc.i <= Len(down)
    /\ IF CanRun(down[mpc.i], schema)
       THEN schema' = Run(down[mpc.i], schema) /\ mpc' = [mpc EXCEPT !.i = @ + 1]
       ELSE schema' = schema /\ mpc' = [mpc EXCEPT !.phase = "failed"]
    /\ UNCHANGED prior

FinishDown ==
    /\ mpc.phase = "down"
    /\ mpc.i > Len(down)
    /\ mpc' = [phase |-> "done", i |-> 0]
    /\ UNCHANGED <<schema, prior>>


\* ================================================================ migration list and runner
\* A migration name YYYYMMDD_HHMMSS as the pair of its two numbers; names of this
\* fixed width compare as strings exactly as the pairs compare.
Name_20250929_111647 == <<20250929, 111647>>
Name_20251202_015831 == <<20251202, 15831>>
Name_20251202_023627 == <<20251202, 23627>>

NameLess(a, b) == a[1] < b[1] \/ (a[1] = b[1] /\ a[2] < b[2])

\* import * as migration_<name> from './<name>': the exports of that module.
Export(module, fn) == [module |-> module, export |-> fn]

\* The list with its last two entries exchanged.
migrationsOutOfOrder == <<
    [up |-> Export(Name_20250929_111647, "up"), down |-> Export(Name_20250929_111647, "down"),
     name |-> Name_20250929_111647],
    [up |-> Export(Name_20251202_023627, "up"), down |-> Export(Name_20251202_023627, "down"),
     name |-> Name_20251202_023627],
    [up |-> Export(Name_20251202_015831, "up"), down |-> Export(Name_20251202_015831, "down"),
     name |-> Name_20251202_015831] >>

migrations == <<
    [up |-> Export(Name_20250929_111647, "up"), down |-> Export(Name_20250929_111647, "down"),
     name |-> Name_20250929_111647],
    [up |-> Export(Name_20251202_015831, "up"), down |-> Export(Name_20251202_015831, "down"),
     name |-> Name_20251202_015831],
    [up |-> Export(Name_20251202_023627, "up"), down |-> Export(Name_20251202_023627, "down"),
     name |-> Name_20251202_023627] >>

AppliedNames == { applied[k].name : k \in 1..Len(applied) }
LatestBatch == IF applied = <<>> THEN 0
               ELSE CHOOSE b \in { applied[k].batch : k \in 1..Len(applied) } :
                        \A k \in 1..Len(applied) : applied[k].batch <= b
\* The row of the latest batch applied last.
LastOfBatch(b) == CHOOSE k \in 1..Len(applied) :
                      /\ applied[k].batch = b
                      /\ \A j \in 1..Len(applied) : applied[j].batch = b => j <= k
EntryNamed(n) == migrations[CHOOSE i \in 1..Len(migrations) : migrations[i].name = n]

IdleRunner == [cmd |-> "idle", i |-> 0, batch |-> 0]
RunnerIdle == applied = <<>> /\ runner = IdleRunner /\ ran = <<>>

InitRunner == RunnerIdle

\* migrate: a new batch, visiting the list from its first entry.
MigrateBegin ==
    /\ runner.cmd = "idle"
    /\ Len(ran) < MaxRan
    /\ runner' = [cmd |-> "migrate", i |-> 1, batch |-> LatestBatch + 1]
    /\ UNCHANGED <<applied, ran>>

\* The next entry of the list: skipped when its name is recorded, run and recorded otherwise.
MigrateVisit ==
    /\ runner.cmd = "migrate"
    /\ runner.i <= Len(migrations)
    /\ LET m == migrations[runner.i]
       IN  IF m.name \in AppliedNames
           THEN UNCHANGED <<applied, ran>>
           ELSE /\ Len(ran) < MaxRan
                /\ ran' = Append(ran, m.up)
                /\ applied' = Append(applied, [name |-> m.name, batch |-> runner.batch])
    /\ runner' = [runner EXCEPT !.i = @ + 1]

MigrateEnd ==
    /\ runner.cmd = "migrate"
    /\ runner.i > Len(migrations)
    /\ runner' = IdleRunner
    /\ UNCHANGED <<applied, ran>>

\* migrate:down: the latest batch, last applied first.
DownBegin ==
    /\ runner.cmd = "idle"
    /\ applied # <<>>
    /\ Len(ran) < MaxRan
    /\ runner' = [cmd |-> "down", i |-> 0, batch |-> LatestBatch]
    /\ UNCHANGED <<applied, ran>>

DownVisit ==
    /\ runner.cmd = "down"
    /\ \E k \in 1..Len(applied) : applied[k].batch = runner.batch
    /\ Len(ran) < MaxRan
    /\ LET k == LastOfBatch(runner.batch)
       IN  /\ ran' = Append(ran, EntryNamed(applied[k].name).down)
           /\ applied' = SubSeq(applied, 1, k - 1) \o SubSeq(applied, k + 1, Len(applied))
    /\ UNCHANGED runner

DownEnd ==
    /\ runner.cmd = "down"
    /\ ~\E k \in 1..Len(applied) : applied[k].batch = runner.batch
    /\ runner' = IdleRunner
    /\ UNCHANGED <<applied, ran>>

\* A script raises, or the deployment step is stopped: the command ends where it is.
RunnerAbort ==
    /\ runner.cmd # "idle"
    /\ runner' = IdleRunner
    /\ UNCHANGED <<applied, ran>>

\* ================================================================ cart store (documented frontend)
CartProducts == { <<"product", n>> : n \in 1..MaxCartProducts }
Variants == { Undefined, <<"variant">> }
\* Item ids are the fresh values crypto.randomUUID() hands out, numbered in order.
ItemIds == 1..MaxUuid
EmptyCart == [items |-> <<>>]

\* typeof item.product === 'string' ? item.product : item.product.id; the store
\* itself only ever writes the product id as a string.
ProductIdOf(item) == item.product

\* JSON.stringify leaves out a property whose value is undefined.
Stringify(c) ==
    [items |-> [i \in 1..Len(c.items) |->
                   IF "variant" \in DOMAIN c.items[i] /\ c.items[i].variant = Undefined
                   THEN [id |-> c.items[i].id, product |-> c.items[i].product,
                         quantity |-> c.items[i].quantity]
                   ELSE c.items[i]]]
\* JSON.parse gives back the object that was written.
Parse(text) == text

\* items.findIndex(...): the first index that satisfies the test, 0 for none (-1 in the code).
FindIndexByProduct(items, productId) ==
    IF \E i \in 1..Len(items) : ProductIdOf(items[i]) = productId
    THEN CHOOSE i \in 1..Len(items) :
            /\ ProductIdOf(items[i]) = productId
            /\ \A j \in 1..(i - 1) : ProductIdOf(items[j]) # productId
    ELSE 0

\* items.find(i => i.id === itemId): the index of the first such item, 0 for none.
FindIndexById(items, itemId) ==
    IF \E i \in 1..Len(items) : items[i].id = itemId
    THEN CHOOSE i \in 1..Len(items) :
            /\ items[i].id = itemId
            /\ \A j \in 1..(i - 1) : items[j].id # itemId
    ELSE 0

\* items.filter(item => item.id !== itemId)
RECURSIVE FilterOutId(_, _)
FilterOutId(items, itemId) ==
    IF items = <<>> THEN <<>>
    ELSE IF Head(items).id = itemId THEN FilterOutId(Tail(items), itemId)
    ELSE <<Head(items)>> \o FilterOutId(Tail(items), itemId)

\* What a call leaves behind: the cart atom, localStorage 'cart', the branch taken.
Outcome(c, st, b) == [cart |-> c, storage |-> st, branch |-> b]

addItem(c, st, productId, quantity, variantId, uuid) ==
    LET currentCart == IF c = Null THEN EmptyCart ELSE c
        existingIndex == FindIndexByProduct(currentCart.items, productId)
        newCart == IF existingIndex > 0
                   THEN [currentCart EXCEPT !.items[existingIndex].quantity = @ + quantity]
                   ELSE [currentCart EXCEPT !.items =
                            Append(@, [id |-> uuid, product |-> productId,
                                       quantity |-> quantity, variant |-> variantId])]
    IN  Outcome(newCart, Stringify(newCart), IF existingIndex > 0 THEN "merged" ELSE "pushed")

removeItem(c, st, itemId) ==
    IF c = Null THEN Outcome(c, st, "noCart")
    ELSE LET newCart == [c EXCEPT !.items = FilterOutId(@, itemId)]
         IN  Outcome(newCart, Stringify(newCart), "filtered")

incrementItem(c, st, itemId) ==
    IF c = Null THEN Outcome(c, st, "noCart")
    ELSE LET k == FindIndexById(c.items, itemId)
         IN  IF k = 0 THEN Outcome(c, st, "notFound")
             ELSE LET newCart == [c EXCEPT !.items[k].quantity = @ + 1]
                  IN  Outcome(newCart, Stringify(newCart), "incremented")

\* decrementItem that removes only below zero (item.quantity < 0).
decrementItemKeepsZero(c, st, itemId) ==
    IF c = Null THEN Outcome(c, st, "noCart")
    ELSE LET k == FindIndexById(c.items, itemId)
         IN  IF k = 0 THEN Outcome(c, st, "notFound")
             ELSE LET lowered == [c EXCEPT !.items[k].quantity = @ - 1]
                  IN  IF lowered.items[k].quantity < 0
                      THEN [removeItem(lowered, st, itemId) EXCEPT !.branch = "removed"]
                      ELSE Outcome(lowered, Stringify(lowered), "decremented")

\* The item is lowered in place, so the removeItem it calls sees the lowered cart.
decrementItem(c, st, itemId) ==
    IF c = Null THEN Outcome(c, st, "noCart")
    ELSE LET k == FindIndexById(c.items, itemId)
         IN  IF k = 0 THEN Outcome(c, st, "notFound")
             ELSE LET lowered == [c EXCEPT !.items[k].quantity = @ - 1]
                  IN  IF lowered.items[k].quantity <= 0
                      THEN [removeItem(lowered, st, itemId) EXCEPT !.branch = "removed"]
                      ELSE Outcome(lowered, Stringify(lowered), "decremented")

\* localStorage.removeItem('cart') leaves getItem returning null.
clearCart(c, st) == Outcome(EmptyCart, Null, "cleared")

\* On a page that has just loaded the atom is null; initCart sets it from localStorage.
initCart(st) == IF st # Null THEN Outcome(Parse(st), st, "restored") ELSE Outcome(Null, st, "nothingStored")

NoCall == [fn |-> "none"]
CartIdle ==
    /\ cart = Null
    /\ storage = Null
    /\ isLoading = FALSE
    /\ nextUuid = 1
    /\ lastCall = NoCall

InitCart ==
    /\ cart \in {Null, EmptyCart}
    /\ storage = Null
    /\ isLoading = FALSE
    /\ nextUuid = 1
    /\ lastCall = NoCall

Took(out, fn) ==
    /\ cart' = out.cart
    /\ storage' = out.storage
    /\ lastCall' = [fn |-> fn, branch |-> out.branch]

\* addItem runs to its end without a pause: isLoading is true only inside it.
CallAddItem(productId, quantity, variantId) ==
    LET out == addItem(cart, storage, productId, quantity, variantId, nextUuid)
    IN  /\ \A i \in 1..Len(out.cart.items) : out.cart.items[i].quantity <= MaxQty
        /\ out.branch = "pushed" => nextUuid <= MaxUuid
        /\ Took(out, "addItem")
        /\ nextUuid' = IF out.branch = "pushed" THEN nextUuid + 1 ELSE nextUuid
        /\ isLoading' = FALSE

CallRemoveItem(itemId) ==
    /\ Took(removeItem(cart, storage, itemId), "removeItem")
    /\ UNCHANGED <<isLoading, nextUuid>>

CallIncrementItem(itemId) ==
    LET out == incrementItem(cart, storage, itemId)
    IN  /\ out.cart # Null => \A i \in 1..Len(out.cart.items) : out.cart.items[i].quantity <= MaxQty
        /\ Took(out, "incrementItem")
        /\ UNCHANGED <<isLoading, nextUuid>>

CallDecrementItem(itemId) ==
    /\ Took(decrementItem(cart, storage, itemId), "decrementItem")
    /\ UNCHANGED <<isLoading, nextUuid>>

CallClearCart ==
    /\ Took(clearCart(cart, storage), "clearCart")
    /\ UNCHANGED <<isLoading, nextUuid>>

\* The page is loaded again: a fresh store, then initCart.
PageLoad ==
    /\ Took(initCart(storage), "initCart")
    /\ isLoading' = FALSE
    /\ UNCHANGED nextUuid

\* ================================================================ specifications
InitAccessSpec   == InitAccess /\ SlugIdle /\ UsersIdle /\ ProductsIdle /\ SchemaIdle /\ RunnerIdle /\ CartIdle
InitSlugSpec     == AccessIdle /\ InitSlug /\ UsersIdle /\ ProductsIdle /\ SchemaIdle /\ RunnerIdle /\ CartIdle
InitUsersSpec    == AccessIdle /\ SlugIdle /\ InitUsers /\ ProductsIdle /\ SchemaIdle /\ RunnerIdle /\ CartIdle
InitProductsSpec == AccessIdle /\ SlugIdle /\ UsersIdle /\ InitProducts /\ SchemaIdle /\ RunnerIdle /\ CartIdle
InitSchemaSpec   == AccessIdle /\ SlugIdle /\ UsersIdle /\ ProductsIdle /\ InitSchema /\ RunnerIdle /\ CartIdle
InitCartSpec     == AccessIdle /\ SlugIdle /\ UsersIdle /\ ProductsIdle /\ SchemaIdle /\ RunnerIdle /\ InitCart
InitRunnerSpec   == AccessIdle /\ SlugIdle /\ UsersIdle /\ ProductsIdle /\ SchemaIdle /\ InitRunner /\ CartIdle

NextAccess ==
    /\ \/ NewRequest
       \/ CallAdminOnly
       \/ CallAdminOnlyFieldAccess
       \/ CallAdminOrCustomerOwner
       \/ CallAdminOrPublishedStatus
       \/ CallCustomerOnlyFieldAccess
    /\ UNCHANGED <<slugVars, userVars, productVars, schemaVars, runnerVars, cartVars>>

NextSlug ==
    /\ RunBeforeValidate
    /\ UNCHANGED <<accessVars, userVars, productVars, schemaVars, runnerVars, cartVars>>

\* Concurrent user requests: any slot may start while others are in flight.
NextUsers ==
    /\ \/ \E r \in Slots, roles \in SuppliedRoles : BeginCreate(r, roles)
       \/ \E r \in Slots : HookCount(r)
       \/ \E r \in Slots, id \in UserIds, roles \in SuppliedRoles : BeginUpdate(r, id, roles)
       \/ \E r \in Slots : Persist(r)
       \/ \E id \in UserIds : DeleteUser(id)
    /\ UNCHANGED <<accessVars, slugVars, productVars, schemaVars, runnerVars, cartVars>>

\* Non-overlapping user requests: a request starts only when none is in flight.
NextUsersSeq ==
    /\ \/ \E r \in Slots, roles \in SuppliedRoles : NoneInFlight /\ BeginCreate(r, roles)
       \/ \E r \in Slots : HookCount(r)
       \/ \E r \in Slots, id \in UserIds, roles \in SuppliedRoles : NoneInFlight /\ BeginUpdate(r, id, roles)
       \/ \E r \in Slots : Persist(r)
       \/ \E id \in UserIds : NoneInFlight /\ DeleteUser(id)
    /\ UNCHANGED <<accessVars, slugVars, productVars, schemaVars, runnerVars, cartVars>>

NextProducts ==
    /\ \/ \E data \in ProductInputs : SubmitCreate(data)
       \/ \E id \in ProductIds, data \in ProductInputs : SubmitUpdate(id, data)
       \/ WriteProduct
       \/ \E id \in ProductIds : DeleteProduct(id)
    /\ UNCHANGED <<accessVars, slugVars, userVars, schemaVars, runnerVars, cartVars>>

NextSchema ==
    /\ \/ StartUp
       \/ UpStatement
       \/ StartDown
       \/ DownStatement
       \/ FinishDown
    /\ UNCHANGED <<accessVars, slugVars, userVars, productVars, runnerVars, cartVars>>

NextCart ==
    /\ \/ \E p \in CartProducts, q \in 1..MaxQty, v \in Variants : CallAddItem(p, q, v)
       \/ \E id \in ItemIds : CallRemoveItem(id)
       \/ \E id \in ItemIds : CallIncrementItem(id)
       \/ \E id \in ItemIds : CallDecrementItem(id)
       \/ CallClearCart
       \/ PageLoad
    /\ UNCHANGED <<accessVars, slugVars, userVars, productVars, schemaVars, runnerVars>>

NextRunner ==
    /\ \/ MigrateBegin
       \/ MigrateVisit
       \/ MigrateEnd
       \/ DownBegin
       \/ DownVisit
       \/ DownEnd
       \/ RunnerAbort
    /\ UNCHANGED <<accessVars, slugVars, userVars, productVars, schemaVars, cartVars>>

SpecAccess   == InitAccessSpec /\ [][NextAccess]_vars
SpecSlug     == InitSlugSpec /\ [][NextSlug]_vars
SpecUsers    == InitUsersSpec /\ [][NextUsers]_vars
SpecUsersSeq == InitUsersSpec /\ [][NextUsersSeq]_vars
SpecProducts == InitProductsSpec /\ [][NextProducts]_vars
SpecSchema   == InitSchemaSpec /\ [][NextSchema]_vars
SpecRunner   == InitRunnerSpec /\ [][NextRunner]_vars
SpecCart     == InitCartSpec /\ [][NextCart]_vars

\* The whole configuration. The components share no state, so each is checked
\* under its own specification above.
Init == InitAccess /\ SlugIdle /\ InitUsers /\ InitProducts /\ SchemaIdle /\ InitRunner /\ InitCart
Next == NextAccess \/ NextSlug \/ NextUsers \/ NextProducts \/ NextSchema \/ NextRunner \/ NextCart
Spec == Init /\ [][Next]_vars


\* ================================================================ properties
\* The set of roles a request user holds: none for an anonymous caller or a user
\* document without a roles field.
RoleSet(user) ==
    IF user = Null THEN {}
    ELSE IF user.roles = Undefined THEN {}
    ELSE { user.roles[i] : i \in 1..Len(user.roles) }

\* C1: adminOrCustomerOwner returns true for every user whose roles contain 'admin',
\* the filter {customer: {equals: <caller id>}} for every other authenticated user,
\* and false for an anonymous caller.
C1_AdminOrCustomerOwner ==
    accFn = "adminOrCustomerOwner" =>
        /\ "admin" \in RoleSet(accUser) => accResult = [kind |-> "bool", value |-> TRUE]
        /\ (accUser # Null /\ "admin" \notin RoleSet(accUser)) =>
               accResult = [kind |-> "where", field |-> "customer", equals |-> accUser.id]
        /\ accUser = Null => accResult = [kind |-> "bool", value |-> FALSE]

\* A customer who is not an admin was given the filter on its own id.
C1_Witness ==
    /\ accFn = "adminOrCustomerOwner"
    /\ accUser # Null
    /\ RoleSet(accUser) = {"customer"}
    /\ accUser.id = 2
    /\ accResult.kind = "where"
    /\ accResult.equals = 2

\* C2: adminOnly returns the boolean true exactly when the user's roles contain
\* 'admin', and the boolean false for an anonymous caller or a user without roles.
C2_AdminOnly ==
    accFn = "adminOnly" =>
        /\ accResult.kind = "bool"
        /\ accResult.value = ("admin" \in RoleSet(accUser))

\* adminOnly was called for a user document that has no roles field and denied it.
C2_Witness ==
    /\ accFn = "adminOnly"
    /\ accUser # Null
    /\ accUser.roles = Undefined
    /\ accResult = [kind |-> "bool", value |-> FALSE]

\* C3: adminOrPublishedStatus returns true for every admin and, for every other
\* caller, the filter {_status: {equals: 'published'}}; never true to a non-admin.
C3_AdminOrPublishedStatus ==
    accFn = "adminOrPublishedStatus" =>
        /\ "admin" \in RoleSet(accUser) => accResult = [kind |-> "bool", value |-> TRUE]
        /\ "admin" \notin RoleSet(accUser) =>
               accResult = [kind |-> "where", field |-> "_status", equals |-> "published"]

\* adminOrPublishedStatus was called for an authenticated customer and restricted it.
C3_Witness ==
    /\ accFn = "adminOrPublishedStatus"
    /\ accUser # Null
    /\ RoleSet(accUser) = {"customer"}
    /\ accResult.kind = "where"

\* A step in which request r's create is written to the users table.
CreatePersisted(r) ==
    /\ reqs[r].pc = "persist"
    /\ reqs[r].operation = "create"
    /\ reqs'[r].pc = "done"
NewUser == users'[Len(users')]

\* C4 as stated: with non-overlapping requests, a create into the empty table is
\* written with roles ['admin'] and every create into a non-empty table with
\* roles ['customer'].
C4_Original ==
    [][\A r \in Slots : CreatePersisted(r) =>
          /\ Len(users) = 0 => NewUser.roles = <<"admin">>
          /\ Len(users) > 0 => NewUser.roles = <<"customer">>]_vars

\* C4 amended: with non-overlapping requests, a create into the empty table is
\* written with roles ['admin'], and a create into a non-empty table whose request
\* supplies no roles is written with the default ['customer'].
C4_FirstAdminThenDefault ==
    [][\A r \in Slots : CreatePersisted(r) =>
          /\ Len(users) = 0 => NewUser.roles = <<"admin">>
          /\ (Len(users) > 0 /\ reqs[r].supplied = Undefined) =>
                 NewUser.roles = <<"customer">>]_vars

\* The first two users ever created are stored, the first as admin and the second,
\* created without roles, as customer.
C4_Witness ==
    /\ Len(users) = 2
    /\ users[1] = [id |-> 1, roles |-> <<"admin">>]
    /\ users[2] = [id |-> 2, roles |-> <<"customer">>]
    /\ \E r \in Slots : /\ reqs[r].pc = "done"
                        /\ reqs[r].operation = "create"
                        /\ reqs[r].supplied = Undefined
                        /\ reqs[r].observed = 1

SlugDerived ==
    /\ hookOut # NotRun
    /\ hookOp \in {"create", "update"}
    /\ hookData.title # Undefined /\ hookData.title # <<>>
    /\ hookData.slug = Undefined \/ hookData.slug = <<>>

\* C6: a derived slug contains only characters of [a-z0-9] and hyphens, never two
\* hyphens in a row, and neither starts nor ends with a hyphen.
C6_SlugShape ==
    SlugDerived =>
        LET s == hookOut.slug
        IN  /\ s # Undefined
            /\ \A i \in 1..Len(s) : s[i] \in SlugChars \cup {"-"}
            /\ \A i \in 1..(Len(s) - 1) : ~(s[i] = "-" /\ s[i + 1] = "-")
            /\ Len(s) > 0 => (s[1] # "-" /\ s[Len(s)] # "-")

\* A title with a run of two characters outside [a-z0-9] between an upper case
\* letter and a digit was given the slug 'z-7'.
C6_Witness ==
    /\ SlugDerived
    /\ hookData.title = <<"Z", " ", "-", "7">>
    /\ hookOut.slug = <<"z", "-", "7">>

\* C7: once down has run to its end right after up, the schema is the one before
\* up: the same tables with the same columns and the same indexes, and none of the
\* tables, columns and indexes up created.
C7_DownRestoresSchema ==
    mpc.phase = "done" =>
        /\ schema = prior
        /\ {"products_gallery", "_products_v_version_gallery"} \cap TableNames(schema) = {}
        /\ \A c \in {"title", "slug", "sku", "copy"} : ~HasColumn(schema, "products", c)
        /\ \A c \in {"version_title", "version_slug", "version_sku", "version_copy"} :
               ~HasColumn(schema, "_products_v", c)
        /\ IndexNames(schema) \cap
               {"products_slug_idx", "_products_v_version_version_slug_idx",
                "products_gallery_order_idx", "products_gallery_parent_id_idx",
                "products_gallery_image_idx", "_products_v_version_gallery_order_idx",
                "_products_v_version_gallery_parent_id_idx",
                "_products_v_version_gallery_image_idx"} = {}

\* up then down ran to the end on a schema that also holds a users table, an
\* inventory column and an index on _products_v.
C7_Witness ==
    /\ mpc.phase = "done"
    /\ "users" \in TableNames(prior)
    /\ HasColumn(prior, "products", "inventory")
    /\ "_products_v_parent_idx" \in IndexNames(prior)

\* A value that counts as supplied: neither absent nor the empty string.
Present(v) == v # Undefined /\ v # <<>>

\* C8: the hook changes nothing but slug, changes slug only on create or update
\* with a title present and no slug supplied, and returns the data unchanged when a
\* slug was supplied, the title is absent, or the operation is neither.
C8_HookFrame ==
    hookOut # NotRun =>
        /\ hookOut.title = hookData.title
        /\ hookOut.sku = hookData.sku
        /\ hookOut.slug # hookData.slug =>
               /\ hookOp \in {"create", "update"}
               /\ Present(hookData.title)
               /\ ~Present(hookData.slug)
        /\ (Present(hookData.slug) \/ ~Present(hookData.title) \/ hookOp \notin {"create", "update"}) =>
               hookOut = hookData

\* An update carrying a title and a slug of its own came back unchanged.
C8_Witness ==
    /\ hookOut # NotRun
    /\ hookOp = "update"
    /\ hookData.title = <<"Z", " ", "7">>
    /\ hookData.slug = <<"A", " ", "b">>
    /\ hookOut = hookData

NoTwoProductsShareSlug ==
    \A i, j \in 1..Len(products) : i # j => products[i].slug # products[j].slug

\* The write in flight carries the slug of another stored product.
SlugTaken ==
    /\ productReq # NoRequest
    /\ \E i \in 1..Len(products) :
          /\ products[i].id # Merged(productReq).id
          /\ products[i].slug = Merged(productReq).slug

C10_AscendingOrder ==
    /\ [i \in 1..Len(migrations) |-> migrations[i].name] =
           <<Name_20250929_111647, Name_20251202_015831, Name_20251202_023627>>
    /\ \A i, j \in 1..Len(migrations) : i < j => NameLess(migrations[i].name, migrations[j].name)
    /\ \A i \in 1..Len(migrations) :
          /\ migrations[i].up = [module |-> migrations[i].name, export |-> "up"]
          /\ migrations[i].down = [module |-> migrations[i].name, export |-> "down"]
    /\ Name_20251202_023627 \in AppliedNames =>
          {Name_20250929_111647, Name_20251202_015831} \subseteq AppliedNames
    /\ \A k \in 1..Len(ran) :
          (ran[k] = [module |-> Name_20251202_023627, export |-> "up"]) =>
              /\ \E j \in 1..(k - 1) : ran[j] = [module |-> Name_20250929_111647, export |-> "up"]
              /\ \E j \in 1..(k - 1) : ran[j] = [module |-> Name_20251202_015831, export |-> "up"]

\* All three migrations are applied, the last in a later batch than the first.
C10_Witness ==
    /\ Len(applied) = 3
    /\ applied[3].name = Name_20251202_023627
    /\ applied[3].batch > applied[1].batch
    /\ runner.cmd = "idle"


\* A step in which the hook of request r's create gets its count and returns.
CreateHookReturned(r) ==
    /\ reqs[r].pc = "hook"
    /\ reqs[r].operation = "create"
    /\ reqs'[r].pc = "persist"

\* A step in which the hook of request r's update runs and returns.
UpdateHookReturned(r) ==
    /\ reqs[r].pc \notin {"hook", "persist"}
    /\ reqs'[r].pc = "persist"
    /\ reqs'[r].operation = "update"

\* C11: the hook changes data only on a create that counts zero users. On an update,
\* and on a create that counts at least one user, it returns the data it was given,
\* so roles the request supplied are written as supplied (not reset to
\* ['customer']); on a create that counts zero it sets roles to ['admin'], also
\* when users were created and deleted before.
C11_HookFrame ==
    [][\A r \in Slots :
          /\ UpdateHookReturned(r) => reqs'[r].data = [roles |-> reqs'[r].supplied]
          /\ (CreateHookReturned(r) /\ Len(users) > 0) =>
                 /\ reqs'[r].data = reqs[r].data
                 /\ reqs[r].supplied # Undefined => reqs'[r].data.roles = reqs[r].supplied
          /\ (CreateHookReturned(r) /\ Len(users) = 0) => reqs'[r].data.roles = <<"admin">>
          /\ (CreatePersisted(r) /\ reqs[r].observed > 0 /\ reqs[r].supplied # Undefined) =>
                 NewUser.roles = reqs[r].supplied
          /\ (CreatePersisted(r) /\ reqs[r].observed = 0) => NewUser.roles = <<"admin">>]_vars

\* The first user was deleted, and the next create, which asked for ['customer'],
\* counted zero users and is stored as admin.
C11_Witness ==
    /\ Len(users) = 1
    /\ users[1] = [id |-> 2, roles |-> <<"admin">>]
    /\ \E r \in Slots : /\ reqs[r].pc = "done"
                        /\ reqs[r].operation = "create"
                        /\ reqs[r].supplied = <<"customer">>
                        /\ reqs[r].observed = 0


\* C12: after any calls of addItem (quantity >= 1), incrementItem, decrementItem,
\* removeItem and clearCart from a null or empty cart, every item in the cart has a
\* quantity of at least 1 and no two items are lines of the same product.
C12_CartWellFormed ==
    cart # Null =>
        /\ \A i \in 1..Len(cart.items) : cart.items[i].quantity >= 1
        /\ \A i, j \in 1..Len(cart.items) :
              i # j => cart.items[i].product # cart.items[j].product

\* decrementItem took the first line created out of the cart when lowering it left
\* no quantity; the cart keeps the line of another product, with quantity 2.
C12_Witness ==
    /\ lastCall = [fn |-> "decrementItem", branch |-> "removed"]
    /\ cart # Null
    /\ Len(cart.items) = 1
    /\ cart.items[1].id = 2
    /\ cart.items[1].quantity = 2
    /\ storage = Stringify(cart)


====
